---- MODULE Spec2Model ----
(***************************************************************************)
(* Teltonika FOTA integration: the setup and unloading of config entries    *)
(* (__init__.py, a second entry kept by its setup state and its devices),   *)
(* the coordinator's refresh round (coordinator.py), the paginated device  *)
(* listing (api.py), the mutation services (services.py) and the           *)
(* per-device cancel button (button.py).                                   *)
(*                                                                         *)
(* One invocation of _async_update_data is followed at a time: the first   *)
(* refresh of async_setup_entry, and, once the entry is loaded, a round    *)
(* whenever none is in flight (when the framework, Home Assistant's        *)
(* DataUpdateCoordinator, starts one is left open).  Every await of the    *)
(* source is a separate step, so commands interleave with a round at each  *)
(* of its suspension points.                                               *)
(***************************************************************************)
EXTENDS Integers, Sequences, FiniteSets, TLC

\* ---------------------------------------------------------------- bounds
\* Pages of one listing the model follows.
MaxPages == 2
\* Items the remote puts on one page.
MaxPerPage == 2

\* --------------------------------------------------------- remote records
\* An "imei" field as the remote sends it: a JSON string, a JSON number, or
\* no such key.  v is the text str() gives.
NoImei == [t |-> "missing", v |-> ""]

ImeiStr(s) == [t |-> "str", v |-> s]

ImeiInt(s) == [t |-> "int", v |-> s]

\* A "task_queue" field: no such key, the string "Empty", a list of task
\* summaries, or any other value.  A summary is [id |-> n]; n = 0 stands for
\* a summary whose "id" is missing or falsy.
QueueAbsent == [kind |-> "absent", items |-> <<>>]

QueueEmptyString == [kind |-> "Empty", items |-> <<>>]

QueueList(ids) == [kind |-> "list", items |-> [i \in 1..Len(ids) |-> [id |-> ids[i]]]]

DevA == [imei |-> ImeiStr("A"), activity_status |-> "Online", task_queue |-> QueueList(<<5, 0, 7, 5>>)]

DevB == [imei |-> ImeiStr("B"), activity_status |-> "Offline", task_queue |-> QueueAbsent]

DevC == [imei |-> ImeiStr("C"), activity_status |-> "Online", task_queue |-> QueueEmptyString]

DevA2 == [imei |-> ImeiInt("A"), activity_status |-> "Inactive", task_queue |-> QueueList(<<0, 9>>)]

DevX == [imei |-> NoImei, activity_status |-> "Online", task_queue |-> QueueList(<<>>)]

DevD == [imei |-> ImeiStr("D"), activity_status |-> "Offline", task_queue |-> QueueList(<<>>)]

DevE == [imei |-> ImeiStr("E"), activity_status |-> "Online", task_queue |-> QueueList(<<0>>)]

DeviceRecords == {DevA, DevB, DevC, DevA2, DevX, DevD, DevE}

TaskPending == [id |-> 5, status |-> "pending"]

TaskFailed == [id |-> 7, status |-> "failed"]

SeqUpTo(S, n) == UNION {[1..k -> S] : k \in 0..n}

\* The "meta" object of a listing response: absent, present without
\* "last_page", or present with it (up to a value beyond every page the model
\* requests).
Metas == {[kind |-> "no_meta", last_page |-> 0], [kind |-> "no_last_page", last_page |-> 0]}
         \cup {[kind |-> "full", last_page |-> n] : n \in 0..(MaxPages + 2)}

\* The records the device listing is paged over.
PagingRecords == {DevA, DevB}

\* Every body a device listing may answer with.
DeviceBodies == {[has_data |-> TRUE, data |-> d, meta |-> m] : d \in SeqUpTo(PagingRecords, MaxPerPage), m \in Metas}
                \cup {[has_data |-> FALSE, data |-> <<>>, meta |-> m] : m \in Metas}

\* The bodies the full system is run against: a first page of two devices
\* announcing a second page, a page of one device, and an empty answer.
FleetBodies == {[has_data |-> TRUE, data |-> <<DevA, DevB>>, meta |-> [kind |-> "full", last_page |-> 2]],
                [has_data |-> TRUE, data |-> <<DevC>>, meta |-> [kind |-> "full", last_page |-> 2]],
                [has_data |-> FALSE, data |-> <<>>, meta |-> [kind |-> "no_meta", last_page |-> 0]]}

\* The one-page listings the cancel buttons are run against: between them the
\* devices carry every shape of task queue.
ButtonBodies == {[has_data |-> TRUE, data |-> <<DevA, DevB>>, meta |-> [kind |-> "full", last_page |-> 1]],
                 [has_data |-> TRUE, data |-> <<DevC, DevD>>, meta |-> [kind |-> "full", last_page |-> 1]],
                 [has_data |-> TRUE, data |-> <<DevA2, DevE>>, meta |-> [kind |-> "no_last_page", last_page |-> 0]],
                 [has_data |-> TRUE, data |-> <<>>, meta |-> [kind |-> "no_meta", last_page |-> 0]]}

\* The records a round is run against to see what becomes of each: two with
\* an identifier and one without.
RoundRecords == {DevA, DevB, DevX}

\* Listings of one or two pages over these records.
RecordBodies == {[has_data |-> TRUE, data |-> d, meta |-> [kind |-> "full", last_page |-> n]] :
                    d \in SeqUpTo(RoundRecords, MaxPerPage), n \in 1..2}

TaskBodies == {[has_data |-> TRUE, data |-> <<TaskPending, TaskFailed>>, meta |-> [kind |-> "full", last_page |-> 3]],
               [has_data |-> FALSE, data |-> <<>>, meta |-> [kind |-> "no_meta", last_page |-> 0]]}

\* Account statistics: a dict, here the set of its (key, value) pairs.
StatsBodies == {{}, {<<"group_count", 3>>}}

\* What the transport can do with one request.
Events == {"200", "401", "403", "500", "client_error", "timeout", "bad_json"}

\* The bodies that can come with an event: a request that fails has none to
\* read, so one stands for all.
BodiesFor(ev, bodies) == IF ev = "200" THEN bodies ELSE {CHOOSE b \in bodies : TRUE}

\* ------------------------------------------------------------- api.py
TeltonikaFotaAuthError == "TeltonikaFotaAuthError"

TeltonikaFotaConnectionError == "TeltonikaFotaConnectionError"

\* isinstance(exc, TeltonikaFotaApiError): the base class and its subclasses.
IsApiError(exc) == exc \in {"TeltonikaFotaApiError", TeltonikaFotaAuthError, TeltonikaFotaConnectionError}

IsAuthError(exc) == exc = TeltonikaFotaAuthError

\* _request: 401 and 403 raise the auth error; raise_for_status and any other
\* aiohttp.ClientError are re-raised as the connection error; a total timeout
\* (asyncio.TimeoutError) and a body that is not JSON (ValueError) are no
\* ClientError and leave _request as they are.
Request(ev, body) ==
    IF ev \in {"401", "403"} THEN [exc |-> TeltonikaFotaAuthError, body |-> body]
    ELSE IF ev \in {"500", "client_error"} THEN [exc |-> TeltonikaFotaConnectionError, body |-> body]
    ELSE IF ev = "timeout" THEN [exc |-> "TimeoutError", body |-> body]
    ELSE IF ev = "bad_json" THEN [exc |-> "JSONDecodeError", body |-> body]
    ELSE [exc |-> "none", body |-> body]

\* result.get("data", [])
GetDataReversed(body) ==
    IF body.has_data THEN [i \in 1..Len(body.data) |-> body.data[Len(body.data) + 1 - i]] ELSE <<>>

GetData(body) == IF body.has_data THEN body.data ELSE <<>>

\* result.get("meta", {}).get("last_page", 1)
LastPage(meta) == IF meta.kind = "full" THEN meta.last_page ELSE 1

\* all_devices.extend(devices)
ExtendFront(all, devs) == devs \o all

Extend(all, devs) == all \o devs

\* if page >= last_page: break
IsLastPageStrict(pg, last_page) == pg > last_page

IsLastPage(pg, last_page) == pg >= last_page

\* What an exception out of async_get_devices does to async_get_all_devices:
\* nothing catches it, so the call raises it and its list is lost.
OnPageErrorReturnPartial(pg, all, exc) == [status |-> "return", exc |-> "none", page |-> pg, all_devices |-> all]

OnPageError(pg, all, exc) == [status |-> "raise", exc |-> exc, page |-> pg, all_devices |-> <<>>]

\* One turn of the while loop of async_get_all_devices, given what
\* async_get_devices(page) came back with.
GetAllDevicesStep(pg, all, resp) ==
    IF resp.exc # "none" THEN OnPageError(pg, all, resp.exc)
    ELSE LET all2 == Extend(all, GetData(resp.body))
             last_page == LastPage(resp.body.meta)
         IN IF IsLastPage(pg, last_page)
            THEN [status |-> "return", exc |-> "none", page |-> pg, all_devices |-> all2]
            ELSE [status |-> "more", exc |-> "none", page |-> pg + 1, all_devices |-> all2]

\* -------------------------------------------------------- coordinator.py
\* TeltonikaFotaData(): no devices, no tasks, no statistics.
EmptyData == [devices |-> [k \in {} |-> DevX], tasks |-> <<>>, company_stats |-> {}]

\* TeltonikaFotaData.total_devices: len(self.devices)
total_devices(d) == Cardinality(DOMAIN d.devices)

\* TeltonikaFotaData.online_devices: the devices whose "activity_status" is
\* "Online"
online_devices(d) == Cardinality({k \in DOMAIN d.devices : d.devices[k].activity_status = "Online"})

\* TeltonikaFotaData.offline_devices: self.total_devices - self.online_devices
offline_devicesByStatus(d) == Cardinality({k \in DOMAIN d.devices : d.devices[k].activity_status = "Offline"})

offline_devices(d) == total_devices(d) - online_devices(d)

\* TeltonikaFotaData.pending_tasks: the tasks whose "status" is "pending"
pending_tasks(d) == Cardinality({i \in 1..Len(d.tasks) : d.tasks[i].status = "pending"})

\* TeltonikaFotaData.failed_tasks: the tasks whose "status" is "failed"
failed_tasks(d) == Cardinality({i \in 1..Len(d.tasks) : d.tasks[i].status = "failed"})

\* TeltonikaFotaData.group_count: self.company_stats.get("group_count", 0)
group_count(d) ==
    IF \E kv \in d.company_stats : kv[1] = "group_count"
    THEN (CHOOSE kv \in d.company_stats : kv[1] = "group_count")[2]
    ELSE 0

\* The comprehension without its filter: a record that has no "imei" gets a key
\* of its own.
DevicesByImeiNoFilter(devs) ==
    LET keys == {devs[i].imei.v : i \in 1..Len(devs)}
        last(k) == CHOOSE i \in 1..Len(devs) : /\ devs[i].imei.v = k
                                               /\ \A j \in 1..Len(devs) : devs[j].imei.v = k => j <= i
    IN [k \in keys |-> devs[last(k)]]

\* The comprehension keeping the first record of a key instead of the last.
DevicesByImeiFirstWins(devs) ==
    LET withId == {i \in 1..Len(devs) : devs[i].imei # NoImei}
        keys == {devs[i].imei.v : i \in withId}
        first(k) == CHOOSE i \in withId : /\ devs[i].imei.v = k
                                          /\ \A j \in withId : devs[j].imei.v = k => i <= j
    IN [k \in keys |-> devs[first(k)]]

\* {str(d["imei"]): d for d in devices if "imei" in d}: a later record with
\* the same key replaces an earlier one.
DevicesByImei(devs) ==
    LET withId == {i \in 1..Len(devs) : devs[i].imei # NoImei}
        keys == {devs[i].imei.v : i \in withId}
        last(k) == CHOOSE i \in withId : /\ devs[i].imei.v = k
                                         /\ \A j \in withId : devs[j].imei.v = k => j <= i
    IN [k \in keys |-> devs[last(k)]]

\* The except clauses of _async_update_data, in their order.
ClassifyAllUpdateFailed(exc) == IF IsApiError(exc) THEN "UpdateFailed" ELSE exc

Classify(exc) ==
    IF IsAuthError(exc) THEN "ConfigEntryAuthFailed"
    ELSE IF IsApiError(exc) THEN "UpdateFailed"
    ELSE exc

\* self._data = data stands after the try block: it is reached only when the
\* three fetches have all returned.  stage is "step" (a fetch returned and the
\* round goes on), "failed" (a fetch raised) or "done" (the last fetch returned).
InstallAlsoOnFailure(cur, built, stage) == IF stage \in {"done", "failed"} THEN built ELSE cur

InstallEveryStep(cur, built, stage) == IF stage \in {"done", "step"} THEN built ELSE cur

Install(cur, built, stage) == IF stage = "done" THEN built ELSE cur

VARIABLES
    self_data,       \* the coordinator's stored snapshot (self._data, coordinator.data)
    origin,          \* history: which round each part of self_data and of data was fetched in
    startData,       \* history: self_data when the round in flight (or the last one) started
    pc,              \* where the round in flight is: idle, devices, tasks, stats
    data,            \* the round's local TeltonikaFotaData
    devices,         \* the round's local list returned by async_get_all_devices
    page,            \* async_get_all_devices: page
    all_devices,     \* async_get_all_devices: all_devices
    fetched,         \* history: the device pages requested in this call and their answers
    asked,           \* history: the task and statistics requests of this round and their answers
    outcome,         \* how the last round ended
    cause,           \* the exception of the client that ended it
    failedAt,        \* the step it ended in
    refreshPending,  \* async_request_refresh has been called since the last round started
    cmd,             \* the service call or button press in flight
    setup,           \* where async_setup_entry of the entry is
    hass_data,       \* the entry ids stored in hass.data[DOMAIN], in the dict's order
    buttons,         \* the identifiers a cancel button entity was created for
    services,        \* the services of the domain are registered
    other            \* a second config entry: where its setup is, and the identifiers in its snapshot

roundVars == <<pc, data, devices, page, all_devices, fetched, asked, outcome, cause, failedAt>>

hassVars == <<setup, hass_data, buttons, services, other>>

vars == <<self_data, origin, startData, pc, data, devices, page, all_devices, fetched, asked, outcome,
          cause, failedAt, refreshPending, cmd, setup, hass_data, buttons, services, other>>

FreshOrigin == [devices |-> "init", tasks |-> "init", company_stats |-> "init"]

\* At the start of a round what was fetched before is no longer "new".
Aged(o) == [f \in DOMAIN o |-> IF o[f] = "new" THEN "old" ELSE o[f]]

\* What a button press read of its device: whether the snapshot had the device
\* and the task_queue it carried.
NotSeen == [known |-> FALSE, task_queue |-> QueueAbsent]

NoCmd == [kind |-> "none", pc |-> "idle", imei |-> "", ids |-> <<>>, calls |-> 0, refreshes |-> 0,
          result |-> "none", cause |-> "none", client |-> "none", seen |-> NotSeen]

NothingAsked == [tasks |-> <<>>, stats |-> <<>>]

\* entry.entry_id of the config entry, and of a second one.
EntryId == "entry1"

OtherId == "entry2"

NoOther == [setup |-> "none", devices |-> {}]

Init ==
    /\ self_data = EmptyData
    /\ origin = [stored |-> FreshOrigin, local |-> FreshOrigin]
    /\ startData = EmptyData
    /\ pc = "idle"
    /\ data = EmptyData
    /\ devices = <<>>
    /\ page = 1
    /\ all_devices = <<>>
    /\ fetched = <<>>
    /\ asked = NothingAsked
    /\ outcome = "none"
    /\ cause = "none"
    /\ failedAt = "none"
    /\ refreshPending = FALSE
    /\ cmd = NoCmd
    /\ setup = "none"
    /\ hass_data = <<>>
    /\ buttons = {}
    /\ services = FALSE
    /\ other = NoOther

\* The framework calls _async_update_data (timer tick, first refresh or a
\* requested refresh): data = TeltonikaFotaData(), and async_get_all_devices
\* starts with page 1 and an empty list.
StartRound ==
    /\ pc = "idle"
    /\ pc' = "devices"
    /\ data' = EmptyData
    /\ devices' = <<>>
    /\ page' = 1
    /\ all_devices' = <<>>
    /\ fetched' = <<>>
    /\ asked' = NothingAsked
    /\ outcome' = "running"
    /\ cause' = "none"
    /\ failedAt' = "none"
    /\ refreshPending' = FALSE
    /\ origin' = [stored |-> Aged(origin.stored), local |-> FreshOrigin]
    /\ startData' = self_data
    /\ UNCHANGED <<self_data, cmd, hassVars>>

\* Where a round is after a fetch of step raised: the except clauses raise, so
\* _async_update_data is over.
AfterFailureNextStep(step) ==
    IF step = "devices" THEN "tasks" ELSE IF step = "tasks" THEN "stats" ELSE "idle"

AfterFailure(step) == "idle"

\* A fetch of the round raised exc in step: the matching except clause raises,
\* and nothing is assigned.
RoundFailsResets(step, exc) ==
    /\ pc' = AfterFailure(step)
    /\ outcome' = Classify(exc)
    /\ cause' = exc
    /\ failedAt' = step
    /\ self_data' = EmptyData
    /\ origin' = [origin EXCEPT !.stored = FreshOrigin]
    /\ UNCHANGED <<data, devices>>

RoundFails(step, exc) ==
    /\ pc' = AfterFailure(step)
    /\ outcome' = Classify(exc)
    /\ cause' = exc
    /\ failedAt' = step
    /\ self_data' = Install(self_data, data, "failed")
    /\ origin' = [origin EXCEPT !.stored = Install(origin.stored, origin.local, "failed")]
    /\ UNCHANGED <<data, devices>>

\* async_get_devices(page) comes back inside async_get_all_devices.  Without
\* wrap the listing is followed for MaxPages pages.  With wrap the page counter
\* goes from MaxPages + 1 back to MaxPages and what the pages after MaxPages
\* hold is not recorded while the loop goes on: a listing that never ends is
\* then a cycle of the model.
DevicesPage(ev, body, wrap) ==
    /\ pc = "devices"
    /\ page <= (IF wrap THEN MaxPages + 1 ELSE MaxPages)
    /\ LET resp == Request(ev, body)
           r == GetAllDevicesStep(page, all_devices, resp)
           entry == IF resp.exc # "none"
                    THEN [page |-> page, exc |-> resp.exc, data |-> <<>>, meta |-> [kind |-> "no_meta", last_page |-> 0]]
                    ELSE [page |-> page, exc |-> "none", data |-> GetData(body), meta |-> body.meta]
           merged == wrap /\ Len(fetched) >= MaxPages
       IN /\ fetched' = IF merged THEN fetched ELSE Append(fetched, entry)
          /\ page' = IF wrap /\ r.page > MaxPages + 1 THEN MaxPages ELSE r.page
          /\ all_devices' = IF merged /\ r.status = "more" THEN all_devices ELSE r.all_devices
          /\ CASE r.status = "raise" -> RoundFails("devices", r.exc)
               [] r.status = "more" ->
                    /\ self_data' = Install(self_data, data, "step")
                    /\ origin' = [origin EXCEPT !.stored = Install(origin.stored, origin.local, "step")]
                    /\ UNCHANGED <<pc, data, devices, outcome, cause, failedAt>>
               [] r.status = "return" ->
                    /\ pc' = "tasks"
                    /\ devices' = r.all_devices
                    /\ data' = [data EXCEPT !.devices = DevicesByImei(r.all_devices)]
                    /\ self_data' = Install(self_data, data', "step")
                    /\ origin' = LET loc == [origin.local EXCEPT !.devices = "new"]
                                 IN [stored |-> Install(origin.stored, loc, "step"), local |-> loc]
                    /\ UNCHANGED <<outcome, cause, failedAt>>
    /\ UNCHANGED <<startData, asked, refreshPending, cmd, hassVars>>

\* async_get_all_tasks: the loop over the task pages, which the round does not
\* call.
GetAllTasksStep(pg, resp) ==
    IF resp.exc # "none" THEN [status |-> "raise", exc |-> resp.exc, tasks |-> <<>>]
    ELSE IF IsLastPage(pg, LastPage(resp.body.meta))
         THEN [status |-> "return", exc |-> "none", tasks |-> GetData(resp.body)]
         ELSE [status |-> "more", exc |-> "none", tasks |-> GetData(resp.body)]

\* async_get_tasks(): the answer to the one request, whatever "meta" it
\* carries; tasks_result.get("data", []).
GetTasksStep(pg, resp) ==
    IF resp.exc # "none" THEN [status |-> "raise", exc |-> resp.exc, tasks |-> <<>>]
    ELSE [status |-> "return", exc |-> "none", tasks |-> GetData(resp.body)]

\* async_get_tasks() comes back: one request, page 1.  (The requests of one
\* round are capped at MaxPages + 1.)
TasksPage(ev, body) ==
    /\ pc = "tasks"
    /\ Len(asked.tasks) < MaxPages + 1
    /\ LET resp == Request(ev, body)
           pg == Len(asked.tasks) + 1
           r == GetTasksStep(pg, resp)
       IN /\ asked' = [asked EXCEPT !.tasks = Append(@, [page |-> pg, exc |-> resp.exc, body |-> body])]
          /\ CASE r.status = "raise" -> RoundFails("tasks", r.exc)
               [] r.status = "more" ->
                    /\ data' = [data EXCEPT !.tasks = @ \o r.tasks]
                    /\ self_data' = Install(self_data, data', "step")
                    /\ origin' = [origin EXCEPT !.stored = Install(origin.stored, origin.local, "step")]
                    /\ UNCHANGED <<pc, devices, outcome, cause, failedAt>>
               [] r.status = "return" ->
                    /\ pc' = "stats"
                    /\ data' = [data EXCEPT !.tasks = @ \o r.tasks]
                    /\ self_data' = Install(self_data, data', "step")
                    /\ origin' = LET loc == [origin.local EXCEPT !.tasks = "new"]
                                 IN [stored |-> Install(origin.stored, loc, "step"), local |-> loc]
                    /\ UNCHANGED <<devices, outcome, cause, failedAt>>
    /\ UNCHANGED <<startData, page, all_devices, fetched, refreshPending, cmd, hassVars>>

\* async_get_company_stats() comes back; on success the round installs its
\* snapshot and returns it.
CompanyStats(ev, body) ==
    /\ pc = "stats"
    /\ LET resp == Request(ev, body)
       IN /\ asked' = [asked EXCEPT !.stats = Append(@, [exc |-> resp.exc, body |-> body])]
          /\ IF resp.exc # "none"
             THEN RoundFails("stats", resp.exc)
             ELSE /\ pc' = "idle"
                  /\ outcome' = "ok"
                  /\ data' = [data EXCEPT !.company_stats = body]
                  /\ self_data' = Install(self_data, data', "done")
                  /\ origin' = LET loc == [origin.local EXCEPT !.company_stats = "new"]
                               IN [stored |-> Install(origin.stored, loc, "done"), local |-> loc]
                  /\ UNCHANGED <<devices, cause, failedAt>>
    /\ UNCHANGED <<startData, page, all_devices, fetched, refreshPending, cmd, hassVars>>

\* ------------------------------------------------------------ __init__.py
\* await coordinator.async_config_entry_first_refresh(): the call raises when
\* the round it ran did not succeed.
FirstRefreshNeverRaises(result) == FALSE

FirstRefreshRaises(result) == result # "ok"

\* hass.data[DOMAIN][entry.entry_id] = {...}: a new key goes to the end of the
\* dict.
StoreEntry(registry, id) == IF \E i \in 1..Len(registry) : registry[i] = id THEN registry ELSE Append(registry, id)

\* if len(hass.data[DOMAIN]) == 1: await async_setup_services(hass)
RegisterServices(registered, registry) == registered \/ Len(registry) = 1

\* hass.data[DOMAIN].pop(entry.entry_id)
PopEntry(registry, id) == SelectSeq(registry, LAMBDA e : e # id)

\* if not hass.data[DOMAIN]: await async_unload_services(hass)
UnloadServices(registered, registry) == registered /\ registry # <<>>

\* async_setup_entry up to the await of the first refresh: a coordinator is
\* constructed (an empty snapshot) and its first round starts.
SetupEntry ==
    /\ setup \in {"none", "failed"}
    /\ pc = "idle"
    /\ setup' = "first_refresh"
    /\ self_data' = EmptyData
    /\ startData' = EmptyData
    /\ origin' = [stored |-> FreshOrigin, local |-> FreshOrigin]
    /\ pc' = "devices"
    /\ data' = EmptyData
    /\ devices' = <<>>
    /\ page' = 1
    /\ all_devices' = <<>>
    /\ fetched' = <<>>
    /\ asked' = NothingAsked
    /\ outcome' = "running"
    /\ cause' = "none"
    /\ failedAt' = "none"
    /\ refreshPending' = FALSE
    /\ UNCHANGED <<cmd, hass_data, buttons, services, other>>

\* The first refresh is over: either it raises and async_setup_entry ends with
\* it, or hass.data[DOMAIN][entry.entry_id] is stored and the platforms are
\* forwarded.
FirstRefreshReturns ==
    /\ setup = "first_refresh"
    /\ pc = "idle"
    /\ IF FirstRefreshRaises(outcome)
       THEN /\ setup' = "failed"
            /\ UNCHANGED hass_data
       ELSE /\ setup' = "forwarding"
            /\ hass_data' = StoreEntry(hass_data, EntryId)
    /\ UNCHANGED <<self_data, origin, startData, roundVars, refreshPending, cmd, buttons, services, other>>

\* async_forward_entry_setups is back: button.py's async_setup_entry made a
\* cancel button for each device of coordinator.data.devices; then the services
\* are registered if this is the only entry.
PlatformsForwarded ==
    /\ setup = "forwarding"
    /\ setup' = "loaded"
    /\ buttons' = DOMAIN self_data.devices
    /\ services' = RegisterServices(services, hass_data)
    /\ UNCHANGED <<self_data, origin, startData, roundVars, refreshPending, cmd, hass_data, other>>

\* async_unload_entry up to the await of async_unload_platforms (between two
\* rounds of the entry's coordinator).
UnloadEntry ==
    /\ setup = "loaded"
    /\ pc = "idle"
    /\ setup' = "unloading"
    /\ UNCHANGED <<self_data, origin, startData, roundVars, refreshPending, cmd, hass_data, buttons,
                   services, other>>

\* async_unload_platforms is back with unload_ok: if it is true the entry is
\* popped; then the services are removed if no entry is left.
UnloadReturns(unload_ok) ==
    /\ setup = "unloading"
    /\ setup' = IF unload_ok THEN "none" ELSE "loaded"
    /\ buttons' = IF unload_ok THEN {} ELSE buttons
    /\ hass_data' = IF unload_ok THEN PopEntry(hass_data, EntryId) ELSE hass_data
    /\ services' = UnloadServices(services, hass_data')
    /\ UNCHANGED <<self_data, origin, startData, roundVars, refreshPending, cmd, other>>

\* The identifiers the snapshot of the second entry's coordinator may hold.
OtherDevices == {{}, {"A"}, {"C"}}

\* async_setup_entry of the second entry, up to the await of its first refresh.
OtherSetupEntry ==
    /\ other.setup \in {"none", "failed"}
    /\ other' = [setup |-> "first_refresh", devices |-> {}]
    /\ UNCHANGED <<self_data, origin, startData, roundVars, refreshPending, cmd, setup, hass_data,
                   buttons, services>>

\* The first refresh of the second entry is over, with result and the
\* identifiers devs in its snapshot.
OtherFirstRefreshReturns(result, devs) ==
    /\ other.setup = "first_refresh"
    /\ IF FirstRefreshRaises(result)
       THEN /\ other' = [setup |-> "failed", devices |-> {}]
            /\ UNCHANGED hass_data
       ELSE /\ other' = [setup |-> "forwarding", devices |-> devs]
            /\ hass_data' = StoreEntry(hass_data, OtherId)
    /\ UNCHANGED <<self_data, origin, startData, roundVars, refreshPending, cmd, setup, buttons, services>>

\* async_forward_entry_setups of the second entry is back.
OtherPlatformsForwarded ==
    /\ other.setup = "forwarding"
    /\ other' = [other EXCEPT !.setup = "loaded"]
    /\ services' = RegisterServices(services, hass_data)
    /\ UNCHANGED <<self_data, origin, startData, roundVars, refreshPending, cmd, setup, hass_data, buttons>>

\* async_unload_entry of the second entry, up to the await of
\* async_unload_platforms.
OtherUnloadEntry ==
    /\ other.setup = "loaded"
    /\ other' = [other EXCEPT !.setup = "unloading"]
    /\ UNCHANGED <<self_data, origin, startData, roundVars, refreshPending, cmd, setup, hass_data,
                   buttons, services>>

\* async_unload_platforms of the second entry is back with unload_ok.
OtherUnloadReturns(unload_ok) ==
    /\ other.setup = "unloading"
    /\ other' = IF unload_ok THEN NoOther ELSE [other EXCEPT !.setup = "loaded"]
    /\ hass_data' = IF unload_ok THEN PopEntry(hass_data, OtherId) ELSE hass_data
    /\ services' = UnloadServices(services, hass_data')
    /\ UNCHANGED <<self_data, origin, startData, roundVars, refreshPending, cmd, setup, buttons>>

\* A timer tick or a requested refresh of the loaded entry starts a round.
ScheduledRound ==
    /\ setup = "loaded"
    /\ StartRound

\* ------------------------------------------------- services.py, button.py
MutationServices == {"create_firmware_task", "create_config_task", "cancel_task",
                     "bulk_cancel_tasks", "retry_failed_tasks"}

\* The ids a call carries: cancel_task its task_id, bulk_cancel_tasks its
\* task_ids, the create services their firmware_id or config_id,
\* retry_failed_tasks its batch_id.
ServiceIds(kind) ==
    IF kind = "cancel_task" THEN <<5>>
    ELSE IF kind = "bulk_cancel_tasks" THEN <<5, 7>>
    ELSE IF kind = "retry_failed_tasks" THEN <<2>>
    ELSE <<3>>

\* The services that name a device.
CreateServices == {"create_firmware_task", "create_config_task"}

\* cv.positive_int, on the integers the model calls with.
PositiveInt(n) == n > 0

\* The schemas the services are registered with: one positive_int, or for
\* bulk_cancel_tasks vol.All(cv.ensure_list, [cv.positive_int]), a list of
\* them of any length.
SchemaAccepts(kind, ids) ==
    /\ \A i \in 1..Len(ids) : PositiveInt(ids[i])
    /\ kind # "bulk_cancel_tasks" => Len(ids) = 1

\* How a service handler ends once its one client call is back: the result is
\* returned, a TeltonikaFotaApiError is wrapped into HomeAssistantError, and
\* anything else leaves the handler as it is.
ServiceOutcome(exc) ==
    IF exc = "none" THEN "returned"
    ELSE IF IsApiError(exc) THEN "HomeAssistantError"
    ELSE exc

\* Calls of coordinator.async_request_refresh() a service handler makes after
\* its client call returned: none.
ServiceRefreshes(exc) == 0

\* Whether a handler calls the client again after the call came back with
\* exc: the except clause raises, and no handler has a loop.
CallsAgainOnConnectionError(exc) == exc = TeltonikaFotaConnectionError

CallsAgain(exc) == FALSE

\* Client calls one command may make in the model.
MaxCalls == 2

\* _get_first_api: the client of the first entry of hass.data[DOMAIN], or None.
GetFirstApi(registry) == IF registry = <<>> THEN "none" ELSE registry[1]

\* coordinator.data.devices of each entry, by its keys.
DevicesOfEntry(e) == IF e = EntryId THEN DOMAIN self_data.devices ELSE other.devices

\* _get_api_for_device: the client of the first entry whose coordinator's
\* snapshot has the device, or None.
GetApiForDeviceLast(registry, imei) ==
    LET has == {i \in 1..Len(registry) : imei \in DevicesOfEntry(registry[i])}
    IN IF has = {} THEN "none" ELSE registry[CHOOSE i \in has : \A j \in has : j <= i]

GetApiForDevice(registry, imei) ==
    LET has == {i \in 1..Len(registry) : imei \in DevicesOfEntry(registry[i])}
    IN IF has = {} THEN "none" ELSE registry[CHOOSE i \in has : \A j \in has : i <= j]

\* The client a handler calls: the create services try _get_api_for_device
\* first and then _get_first_api, the others _get_first_api alone.
LookUpApi(kind, registry, imei) ==
    IF kind \in CreateServices /\ GetApiForDevice(registry, imei) # "none"
    THEN GetApiForDevice(registry, imei)
    ELSE GetFirstApi(registry)

\* A mutation service is called with ids (and, for a create service, imei):
\* data the schema does not accept is refused before the handler runs; the
\* handler looks up the client and awaits its one call, or raises
\* HomeAssistantError when there is no client.
CallServiceWith(kind, imei, ids) ==
    /\ services
    /\ cmd.pc = "idle"
    /\ LET api == LookUpApi(kind, hass_data, imei)
           named == IF kind \in CreateServices THEN imei ELSE ""
       IN cmd' = IF ~SchemaAccepts(kind, ids)
                 THEN [kind |-> kind, pc |-> "idle", imei |-> named, ids |-> ids, calls |-> 0,
                       refreshes |-> 0, result |-> "Invalid", cause |-> "none",
                       client |-> "none", seen |-> NotSeen]
                 ELSE IF api = "none"
                 THEN [kind |-> kind, pc |-> "idle", imei |-> named, ids |-> ids, calls |-> 0,
                       refreshes |-> 0, result |-> "HomeAssistantError", cause |-> "none",
                       client |-> "none", seen |-> NotSeen]
                 ELSE [kind |-> kind, pc |-> "submitting", imei |-> named, ids |-> ids,
                       calls |-> 1, refreshes |-> 0, result |-> "pending", cause |-> "none",
                       client |-> api, seen |-> NotSeen]
    /\ UNCHANGED <<self_data, origin, startData, roundVars, refreshPending, hassVars>>

\* A mutation service is called with data its schema accepts.
CallService(kind) == CallServiceWith(kind, "A", ServiceIds(kind))

\* What a command whose client call came back with exc makes of the stored
\* snapshot: no handler and no button assigns to the coordinator's data.
SnapshotAfterCommandOptimistic(snapshot, c, exc) ==
    IF exc = "none" /\ c.imei \in DOMAIN snapshot.devices
    THEN [snapshot EXCEPT !.devices[c.imei].task_queue = QueueEmptyString]
    ELSE snapshot

SnapshotAfterCommand(snapshot, c, exc) == snapshot

\* The client call of a mutation service comes back.
ServiceReturns(ev) ==
    /\ cmd.pc = "submitting"
    /\ cmd.kind \in MutationServices
    /\ LET resp == Request(ev, "ack")
           n == ServiceRefreshes(resp.exc)
       IN IF CallsAgain(resp.exc) /\ cmd.calls < MaxCalls
          THEN /\ cmd' = [cmd EXCEPT !.calls = @ + 1]
               /\ UNCHANGED refreshPending
          ELSE /\ cmd' = [cmd EXCEPT !.pc = "idle", !.result = ServiceOutcome(resp.exc),
                                     !.cause = resp.exc, !.refreshes = n]
               /\ refreshPending' = (refreshPending \/ n > 0)
    /\ self_data' = SnapshotAfterCommand(self_data, cmd, Request(ev, "ack").exc)
    /\ UNCHANGED <<origin, startData, roundVars, hassVars>>

\* device = coordinator.data.devices.get(imei, {}); device.get("task_queue")
TaskQueueOfBusyDefault(snapshot, imei) ==
    IF imei \in DOMAIN snapshot.devices THEN snapshot.devices[imei].task_queue ELSE QueueList(<<5>>)

TaskQueueOf(snapshot, imei) ==
    IF imei \in DOMAIN snapshot.devices THEN snapshot.devices[imei].task_queue ELSE QueueAbsent

\* not task_queue or task_queue == "Empty"
NoTasks(q) == q.kind \in {"absent", "Empty"} \/ (q.kind = "list" /\ q.items = <<>>)

\* [t.get("id") for t in task_queue if t.get("id")]
RECURSIVE TaskIdsUnique(_)
TaskIdsUnique(items) ==
    IF items = <<>> THEN <<>>
    ELSE LET rest == TaskIdsUnique(Tail(items))
         IN IF Head(items).id # 0 /\ \A i \in 1..Len(rest) : rest[i] # Head(items).id
            THEN <<Head(items).id>> \o rest
            ELSE rest

RECURSIVE TaskIds(_)
TaskIds(items) ==
    IF items = <<>> THEN <<>>
    ELSE IF Head(items).id # 0 THEN <<Head(items).id>> \o TaskIds(Tail(items))
    ELSE TaskIds(Tail(items))

\* The cancel button of device imei is pressed: up to the await of
\* async_bulk_cancel_tasks, or to the return when there is nothing to cancel.
PressCancel(imei) ==
    /\ imei \in buttons
    /\ cmd.pc = "idle"
    /\ LET q == TaskQueueOf(self_data, imei)
           ids == IF q.kind = "list" THEN TaskIds(q.items) ELSE <<>>
           sends == ~NoTasks(q) /\ q.kind = "list" /\ ids # <<>>
           seen == IF imei \in DOMAIN self_data.devices
                   THEN [known |-> TRUE, task_queue |-> self_data.devices[imei].task_queue]
                   ELSE NotSeen
       IN cmd' = [kind |-> "cancel_button", pc |-> IF sends THEN "submitting" ELSE "idle",
                  imei |-> imei, ids |-> IF sends THEN ids ELSE <<>>,
                  calls |-> IF sends THEN 1 ELSE 0, refreshes |-> 0,
                  result |-> IF sends THEN "pending" ELSE "returned", cause |-> "none",
                  client |-> EntryId, seen |-> seen]
    /\ UNCHANGED <<self_data, origin, startData, roundVars, refreshPending, hassVars>>

\* async_bulk_cancel_tasks comes back to the button: on success it awaits
\* coordinator.async_request_refresh(); any exception is logged and re-raised.
CancelReturns(ev) ==
    /\ cmd.pc = "submitting"
    /\ cmd.kind = "cancel_button"
    /\ LET resp == Request(ev, "ack")
       IN IF resp.exc = "none"
          THEN /\ cmd' = [cmd EXCEPT !.pc = "idle", !.result = "returned", !.refreshes = @ + 1]
               /\ refreshPending' = TRUE
          ELSE /\ cmd' = [cmd EXCEPT !.pc = "idle", !.result = resp.exc, !.cause = resp.exc]
               /\ UNCHANGED refreshPending
    /\ self_data' = SnapshotAfterCommand(self_data, cmd, Request(ev, "ack").exc)
    /\ UNCHANGED <<origin, startData, roundVars, hassVars>>

\* The refresh_devices service: coordinator.async_request_refresh().
RefreshDevices ==
    /\ services
    /\ refreshPending' = TRUE
    /\ UNCHANGED <<self_data, origin, startData, roundVars, cmd, hassVars>>

\* The refresh button: coordinator.async_request_refresh().
PressRefresh ==
    /\ setup = "loaded"
    /\ refreshPending' = TRUE
    /\ UNCHANGED <<self_data, origin, startData, roundVars, cmd, hassVars>>

\* The identifiers a button can stand for.
Imeis == {"A", "B", "C", "D", "E"}

Next ==
    \/ SetupEntry
    \/ FirstRefreshReturns
    \/ PlatformsForwarded
    \/ ScheduledRound
    \/ \E ev \in Events : \E body \in BodiesFor(ev, FleetBodies) : DevicesPage(ev, body, FALSE)
    \/ \E ev \in Events : \E body \in BodiesFor(ev, TaskBodies) : TasksPage(ev, body)
    \/ \E ev \in Events : \E body \in BodiesFor(ev, StatsBodies) : CompanyStats(ev, body)
    \/ \E kind \in MutationServices : CallService(kind)
    \/ \E ev \in Events : ServiceReturns(ev)
    \/ \E imei \in Imeis : PressCancel(imei)
    \/ \E ev \in Events : CancelReturns(ev)
    \/ RefreshDevices
    \/ PressRefresh

Spec == Init /\ [][Next]_vars

\* The device listing alone, against every body the remote may answer with.
NextPaging ==
    \/ StartRound
    \/ \E ev \in Events : \E body \in BodiesFor(ev, DeviceBodies) : DevicesPage(ev, body, FALSE)

SpecPaging == Init /\ [][NextPaging]_vars

\* The device listing with the page counter wrapped; every fetch that is
\* awaited comes back.
NextLive ==
    \/ StartRound
    \/ \E ev \in Events : \E body \in BodiesFor(ev, DeviceBodies) : DevicesPage(ev, body, TRUE)

SpecLive == Init /\ [][NextLive]_vars /\ WF_vars(NextLive)

\* The entry and its cancel buttons, against devices of every queue shape.
NextButton ==
    \/ SetupEntry
    \/ FirstRefreshReturns
    \/ PlatformsForwarded
    \/ ScheduledRound
    \/ \E ev \in Events : \E body \in BodiesFor(ev, ButtonBodies) : DevicesPage(ev, body, FALSE)
    \/ \E ev \in Events : \E body \in BodiesFor(ev, {CHOOSE b \in TaskBodies : b.has_data}) : TasksPage(ev, body)
    \/ \E ev \in Events : \E body \in BodiesFor(ev, {{}}) : CompanyStats(ev, body)
    \/ \E imei \in Imeis : PressCancel(imei)
    \/ \E ev \in Events : CancelReturns(ev)

SpecButton == Init /\ [][NextButton]_vars

\* A remote whose every call returns and succeeds: listings of one page, and
\* a listing whose every page announces pages beyond it.
EventualBodies == {[has_data |-> TRUE, data |-> <<DevA, DevB>>, meta |-> [kind |-> "full", last_page |-> 1]],
                   [has_data |-> TRUE, data |-> <<DevC, DevE>>, meta |-> [kind |-> "no_last_page", last_page |-> 0]],
                   [has_data |-> TRUE, data |-> <<DevA>>, meta |-> [kind |-> "full", last_page |-> MaxPages + 2]]}

\* The fetches of a round against that remote, the page counter wrapped.
RoundStepEventual ==
    \/ \E body \in EventualBodies : DevicesPage("200", body, TRUE)
    \/ \E body \in {CHOOSE b \in TaskBodies : b.has_data} : TasksPage("200", body)
    \/ CompanyStats("200", {})

\* One press of one cancel button, the only command of the behaviour.
PressCancelOnce(imei) == cmd = NoCmd /\ PressCancel(imei)

\* The entry, its rounds and one cancel command against that remote. Every
\* awaited call comes back and the update interval elapses; nobody has to
\* press the button.
NextEventual ==
    \/ SetupEntry
    \/ FirstRefreshReturns
    \/ PlatformsForwarded
    \/ ScheduledRound
    \/ RoundStepEventual
    \/ \E imei \in Imeis : PressCancelOnce(imei)
    \/ CancelReturns("200")

SpecEventual ==
    /\ Init
    /\ [][NextEventual]_vars
    /\ WF_vars(FirstRefreshReturns)
    /\ WF_vars(PlatformsForwarded)
    /\ WF_vars(ScheduledRound)
    /\ WF_vars(RoundStepEventual)
    /\ WF_vars(CancelReturns("200"))

\* Whole rounds, against listings that hold records without an identifier.
NextRecords ==
    \/ StartRound
    \/ \E ev \in Events : \E body \in BodiesFor(ev, RecordBodies) : DevicesPage(ev, body, FALSE)
    \/ \E ev \in Events : \E body \in BodiesFor(ev, TaskBodies) : TasksPage(ev, body)
    \/ \E ev \in Events : \E body \in BodiesFor(ev, StatsBodies) : CompanyStats(ev, body)

SpecRecords == Init /\ [][NextRecords]_vars

\* The records a round is run against to see what becomes of records that
\* share an identifier: "A" as a JSON string, "A" as a JSON number, and "B".
DuplicateRecords == {DevA, DevA2, DevB}

\* Listings of one or two pages over these records.
DuplicateBodies == {[has_data |-> TRUE, data |-> d, meta |-> [kind |-> "full", last_page |-> n]] :
                       d \in SeqUpTo(DuplicateRecords, MaxPerPage), n \in 1..2}

\* Whole rounds, against listings in which an identifier comes back more than
\* once.
NextDuplicates ==
    \/ StartRound
    \/ \E ev \in Events : \E body \in BodiesFor(ev, DuplicateBodies) : DevicesPage(ev, body, FALSE)
    \/ \E ev \in Events : \E body \in BodiesFor(ev, TaskBodies) : TasksPage(ev, body)
    \/ \E ev \in Events : \E body \in BodiesFor(ev, StatsBodies) : CompanyStats(ev, body)

SpecDuplicates == Init /\ [][NextDuplicates]_vars

\* The listings the first entry is set up against when two entries share the
\* registry.
RegistryBodies == {[has_data |-> TRUE, data |-> <<DevA, DevB>>, meta |-> [kind |-> "full", last_page |-> 1]],
                   [has_data |-> TRUE, data |-> <<DevC>>, meta |-> [kind |-> "no_meta", last_page |-> 0]]}

\* The data the services are called with: ids the schemas take and ids they
\* do not, and for bulk_cancel_tasks also the empty list.
ServiceInputs(kind) ==
    IF kind = "bulk_cancel_tasks" THEN {<<>>, <<5, 7>>, <<5, -1>>}
    ELSE {ServiceIds(kind), <<-1>>}

\* The devices a create service is called for: known to the first entry, to
\* the second, to both or to none.
ServiceImeis(kind) == IF kind \in CreateServices THEN {"A", "C", "Z"} ELSE {""}

\* Two config entries set up and unloaded side by side, and the services
\* called in between.
NextRegistry ==
    \/ SetupEntry
    \/ \E ev \in Events : \E body \in BodiesFor(ev, RegistryBodies) : DevicesPage(ev, body, FALSE)
    \/ \E ev \in Events : \E body \in BodiesFor(ev, {CHOOSE b \in TaskBodies : b.has_data}) : TasksPage(ev, body)
    \/ \E ev \in Events : \E body \in BodiesFor(ev, {{}}) : CompanyStats(ev, body)
    \/ FirstRefreshReturns
    \/ PlatformsForwarded
    \/ UnloadEntry
    \/ \E unload_ok \in BOOLEAN : UnloadReturns(unload_ok)
    \/ OtherSetupEntry
    \/ \E result \in {"ok", "UpdateFailed"} : \E devs \in OtherDevices : OtherFirstRefreshReturns(result, devs)
    \/ OtherPlatformsForwarded
    \/ OtherUnloadEntry
    \/ \E unload_ok \in BOOLEAN : OtherUnloadReturns(unload_ok)
    \/ \E kind \in MutationServices : \E imei \in ServiceImeis(kind) : \E ids \in ServiceInputs(kind) :
          CallServiceWith(kind, imei, ids)
    \/ \E ev \in Events : ServiceReturns(ev)

SpecRegistry == Init /\ [][NextRegistry]_vars

\* ------------------------------------------------------------- properties
RoundFailed == pc = "idle" /\ outcome \notin {"none", "ok"}

\* C1: a round that a TeltonikaFotaAuthError ended fails with
\* ConfigEntryAuthFailed, a round that any other TeltonikaFotaApiError ended
\* fails with UpdateFailed, and neither outcome is ever reported for the other
\* class of error.
C1_ErrorClassification ==
    RoundFailed =>
        /\ cause = "TeltonikaFotaAuthError" => outcome = "ConfigEntryAuthFailed"
        /\ cause \in {"TeltonikaFotaApiError", "TeltonikaFotaConnectionError"} => outcome = "UpdateFailed"
        /\ outcome = "UpdateFailed" => cause # "TeltonikaFotaAuthError"
        /\ outcome = "ConfigEntryAuthFailed" => cause = "TeltonikaFotaAuthError"

\* C1 witness: the task fetch of a round raised the auth error.
C1_Witness == RoundFailed /\ failedAt = "tasks" /\ cause = "TeltonikaFotaAuthError"

\* C2: when a round has failed, in whichever step, the stored snapshot is the
\* one that was stored when the round started.
C2_FailedRoundKeepsSnapshot == RoundFailed => self_data = startData

\* C2 witness: a round failed in its last step, after its device and task
\* fetches had succeeded with other data than the stored snapshot holds.
C2_Witness ==
    /\ RoundFailed
    /\ failedAt = "stats"
    /\ self_data # EmptyData
    /\ data.devices # self_data.devices
    /\ data.tasks # self_data.tasks

\* C3: a mutation command whose remote call succeeded has requested exactly
\* one refresh, and one whose remote call failed has requested none.
C3_RefreshAfterEveryMutation ==
    (cmd.pc = "idle" /\ cmd.calls = 1 /\ cmd.kind \in MutationServices \cup {"cancel_button"}) =>
        IF cmd.result = "returned" THEN cmd.refreshes = 1 ELSE cmd.refreshes = 0

\* C6: at every point, also between the fetches of a round in flight, the
\* stored snapshot is whole: its three parts were fetched in the same round
\* (or it is still the empty one of construction), and while a round is in
\* flight it is the snapshot stored when that round started.
C6_ReadersSeeWholeSnapshot ==
    /\ origin.stored.devices = origin.stored.tasks
    /\ origin.stored.tasks = origin.stored.company_stats
    /\ origin.stored.devices = "init" => self_data = EmptyData
    /\ pc # "idle" => self_data = startData

\* C6 witness: a round is suspended before its statistics fetch, holding
\* devices and tasks that differ from those of the stored snapshot of an
\* earlier round.
C6_Witness ==
    /\ pc = "stats"
    /\ origin.stored.devices = "old"
    /\ data.devices # self_data.devices
    /\ data.tasks # self_data.tasks

\* The answers so far are n pages of k items each, every one reporting
\* last_page = n.
UniformPages(n, k) ==
    /\ fetched # <<>>
    /\ \A i \in 1..Len(fetched) :
        /\ fetched[i].exc = "none"
        /\ fetched[i].meta = [kind |-> "full", last_page |-> n]
        /\ Len(fetched[i].data) = k

\* C7: when the listing is N pages of K items each, all reporting
\* last_page = N, async_get_all_devices returns the N*K items, page after page
\* and in the order within each page.
C7_AllPagesInOrder ==
    \A n \in 1..(MaxPages + 1), k \in 0..MaxPerPage :
        (pc = "tasks" /\ UniformPages(n, k)) =>
            /\ Len(fetched) = n
            /\ Len(devices) = n * k
            /\ \A p \in 1..n, i \in 1..k : devices[(p - 1) * k + i] = fetched[p].data[i]

\* C7 witness: two pages of two items each, with different items, were returned.
C7_Witness ==
    /\ pc = "tasks"
    /\ UniformPages(2, 2)
    /\ Len(fetched) = 2
    /\ fetched[1].data # fetched[2].data
    /\ fetched[1].data[1] # fetched[1].data[2]

\* C8: when the fetch of page M fails, the call is over with that error, no
\* page after M has been requested, and nothing of the pages before M is
\* returned.
C8_FailedPageDiscardsAll ==
    \A m \in 1..Len(fetched) :
        fetched[m].exc # "none" =>
            /\ m = Len(fetched)
            /\ fetched[m].page = m
            /\ pc = "idle"
            /\ failedAt = "devices"
            /\ cause = fetched[m].exc
            /\ devices = <<>>
            /\ data = EmptyData

\* C8 witness: page 2 failed after page 1 had brought items.
C8_Witness ==
    /\ Len(fetched) = 2
    /\ fetched[2].exc = "TeltonikaFotaConnectionError"
    /\ fetched[1].data # <<>>

\* C9: an aggregation that has started ends, by returning or by failing.
C9_ListingTerminates == (pc = "devices") ~> (pc # "devices")

\* The last_page an answer reports, a missing one counting as 1.
Reported(e) == IF e.meta.kind = "full" THEN e.meta.last_page ELSE 1

\* C10: the pages requested are 1, 2, 3, ... without a gap or a repeat; the
\* call goes on only while every answer reported a last_page beyond its page,
\* and it returns after at least one request, at the first page p whose answer
\* reports last_page <= p.
C10_PagesRequestedInTurn ==
    /\ \A i \in 1..Len(fetched) : fetched[i].page = i
    /\ pc = "devices" =>
        /\ page = Len(fetched) + 1
        /\ \A i \in 1..Len(fetched) : fetched[i].exc = "none" /\ Reported(fetched[i]) > i
    /\ pc = "tasks" =>
        /\ Len(fetched) >= 1
        /\ Reported(fetched[Len(fetched)]) <= Len(fetched)
        /\ \A i \in 1..(Len(fetched) - 1) : fetched[i].exc = "none" /\ Reported(fetched[i]) > i

\* C10 witness: page 1 announced a second page, and the call returned after
\* page 2, whose answer had no pagination metadata.
C10_Witness ==
    /\ pc = "tasks"
    /\ Len(fetched) = 2
    /\ fetched[2].meta.kind = "no_meta"

\* A task queue with nothing in it: no such key, an empty list, or "Empty".
EmptyQueue(q) == q.kind \in {"absent", "Empty"} \/ (q.kind = "list" /\ q.items = <<>>)

\* C11: a press of the cancel button that found the device's queue absent,
\* empty or "Empty", or did not find the device in the snapshot, has made no
\* remote call and no refresh request and has returned without an error.
C11_NothingToCancelIsNoOp ==
    (cmd.kind = "cancel_button" /\ (~cmd.seen.known \/ EmptyQueue(cmd.seen.task_queue))) =>
        /\ cmd.pc = "idle"
        /\ cmd.calls = 0
        /\ cmd.refreshes = 0
        /\ cmd.result = "returned"

\* C11 witness: the button of a device that a later round no longer listed was
\* pressed and returned.
C11_Witness ==
    /\ cmd.kind = "cancel_button"
    /\ cmd.imei \in buttons
    /\ ~cmd.seen.known
    /\ cmd.imei \notin DOMAIN self_data.devices
    /\ self_data.devices # EmptyData.devices
    /\ cmd.result = "returned"

\* The identifiers present in a queue, in queue order.
IdsPresent(q) ==
    LET withId == SelectSeq(q.items, LAMBDA t : t.id # 0)
    IN [i \in 1..Len(withId) |-> withId[i].id]

\* C12: a press of the cancel button makes the bulk-cancel call if and only if
\* the queue it read is a list with at least one entry that has an identifier,
\* and the ids it sends are the identifiers of that queue in queue order,
\* duplicates included.
C12_ButtonSendsQueueIds ==
    cmd.kind = "cancel_button" =>
        LET q == cmd.seen.task_queue
            some == cmd.seen.known /\ q.kind = "list" /\ \E i \in 1..Len(q.items) : q.items[i].id # 0
        IN /\ cmd.calls \in {0, 1}
           /\ cmd.calls = 1 <=> some
           /\ cmd.calls = 1 => cmd.ids = IdsPresent(q)
           /\ cmd.calls = 0 => cmd.ids = <<>>

\* C12 witness: the queue held 5, an entry without an identifier, 7 and 5
\* again, and the call carried 5, 7, 5.
C12_Witness ==
    /\ cmd.kind = "cancel_button"
    /\ cmd.seen.task_queue = QueueList(<<5, 0, 7, 5>>)
    /\ cmd.calls = 1
    /\ cmd.ids = <<5, 7, 5>>

\* C13: a mutation command whose remote call failed with an API error ends
\* with the wrapped HomeAssistantError, not with the API error itself.
C13_ApiErrorsAreWrapped ==
    (cmd.pc = "idle" /\ cmd.calls >= 1 /\ IsApiError(cmd.cause)) => cmd.result = "HomeAssistantError"

\* C14: a mutation service that found a client makes exactly one call to the
\* remote API, while it waits for the answer and after it, whatever the answer.
C14_ExactlyOneMutationCall ==
    (cmd.kind \in MutationServices /\ cmd.client # "none") => cmd.calls = 1

\* C14 witness: the call of retry_failed_tasks failed with a connection error
\* and the handler is over.
C14_Witness ==
    /\ cmd.kind = "retry_failed_tasks"
    /\ cmd.pc = "idle"
    /\ cmd.cause = "TeltonikaFotaConnectionError"
    /\ cmd.calls = 1

\* C15: when the first refresh has failed, async_setup_entry is over with
\* nothing stored in hass.data[DOMAIN], no button created and no service
\* registered; an entry is stored only after its coordinator has installed the
\* snapshot of a successful round.
C15_FailedFirstRefreshAbandonsSetup ==
    /\ setup = "failed" =>
        /\ outcome \notin {"none", "running", "ok"}
        /\ hass_data = <<>>
        /\ buttons = {}
        /\ ~services
    /\ setup = "first_refresh" => hass_data = <<>>
    /\ hass_data # <<>> => origin.stored.company_stats \in {"new", "old"}
    /\ (services \/ buttons # {}) => hass_data = <<EntryId>>

\* C15 witness: the first refresh failed in its last fetch, after devices and
\* tasks had been fetched, and the setup was abandoned.
C15_Witness ==
    /\ setup = "failed"
    /\ failedAt = "stats"
    /\ data.devices # EmptyData.devices
    /\ self_data = EmptyData

\* C17: a round that succeeded made exactly one task-listing request, for
\* page 1, whatever last_page the answer reported, and exactly one statistics
\* request.
C17_OneTaskPageOneStatsRequest ==
    (pc = "idle" /\ outcome = "ok") =>
        /\ Len(asked.tasks) = 1
        /\ asked.tasks[1].page = 1
        /\ Len(asked.stats) = 1

\* C17 witness: the task listing reported three pages and the round succeeded.
C17_Witness ==
    /\ pc = "idle"
    /\ outcome = "ok"
    /\ Len(asked.tasks) = 1
    /\ asked.tasks[1].body.meta = [kind |-> "full", last_page |-> 3]
    /\ self_data.tasks # <<>>

AllOk(log) == \A i \in 1..Len(log) : log[i].exc = "none"

\* C18: the task request is made only after every device page was answered,
\* the statistics request only after the task page was answered; a round that
\* failed in the device step has made no task or statistics request, and one
\* that failed in the task step no statistics request.
C18_FixedStepOrder ==
    /\ pc = "devices" => asked = NothingAsked /\ AllOk(fetched)
    /\ (pc = "tasks" \/ asked.tasks # <<>>) => fetched # <<>> /\ AllOk(fetched)
    /\ pc = "tasks" => asked.stats = <<>>
    /\ (pc = "stats" \/ asked.stats # <<>>) => asked.tasks # <<>> /\ AllOk(asked.tasks)
    /\ (RoundFailed /\ failedAt = "devices") => asked = NothingAsked
    /\ (RoundFailed /\ failedAt = "tasks") => asked.stats = <<>>

\* C18 witness: a round fetched two device pages and failed in the task step.
C18_Witness ==
    /\ RoundFailed
    /\ failedAt = "tasks"
    /\ Len(fetched) = 2
    /\ Len(asked.tasks) = 1
    /\ asked.stats = <<>>

\* The records of the pages answered in this round.
RecordsFetched == {fetched[p].data[i] : <<p, i>> \in {pi \in (1..Len(fetched)) \X (1..MaxPerPage + 1) : pi[2] <= Len(fetched[pi[1]].data)}}

\* In map m every fetched record with an identifier stands under it and no
\* record without one stands anywhere.
KeepsIdentified(m) ==
    /\ \A r \in RecordsFetched :
        IF r.imei = NoImei
        THEN \A k \in DOMAIN m : m[k] # r
        ELSE r.imei.v \in DOMAIN m /\ m[r.imei.v] = r
    /\ \A k \in DOMAIN m : m[k] \in RecordsFetched

\* C19: a record without "imei" is left out of the device map and does not
\* fail the round (the device step fails only when a request raised); every
\* other record of its page and of the other pages is kept under its
\* identifier, in the round's map and in the snapshot it installs.
C19_RecordWithoutImeiIsSkipped ==
    /\ pc \in {"tasks", "stats"} => KeepsIdentified(data.devices)
    /\ (pc = "idle" /\ outcome = "ok") => KeepsIdentified(self_data.devices)
    /\ (RoundFailed /\ failedAt = "devices") => fetched[Len(fetched)].exc # "none"

\* C19 witness: both pages held a record without an identifier next to one
\* with, and the round succeeded with the two identified devices.
C19_Witness ==
    /\ pc = "idle"
    /\ outcome = "ok"
    /\ Len(fetched) = 2
    /\ fetched[1].data = <<DevX, DevA>>
    /\ fetched[2].data = <<DevB, DevX>>
    /\ DOMAIN self_data.devices = {"A", "B"}

\* The round answered as in the example: device pages of two and of one
\* device, a task page with one pending and one failed task, group_count 3.
ExampleRound ==
    /\ Len(fetched) = 2
    /\ Len(fetched[1].data) = 2
    /\ Len(fetched[2].data) = 1
    /\ Len(asked.tasks) = 1
    /\ asked.tasks[1].body.has_data
    /\ asked.tasks[1].body.data = <<TaskPending, TaskFailed>>
    /\ Len(asked.stats) = 1
    /\ asked.stats[1].body = {<<"group_count", 3>>}

\* C20: after a successful round the stored snapshot holds the fetched devices
\* that carry an identifier, each under its identifier, the items of the task
\* page in their order and the statistics as returned; in the example it
\* counts 3 devices, 2 tasks, 1 pending, 1 failed and 3 groups.
C20_SnapshotOfSuccessfulRound ==
    (pc = "idle" /\ outcome = "ok") =>
        /\ DOMAIN self_data.devices = {r.imei.v : r \in {x \in RecordsFetched : x.imei # NoImei}}
        /\ \A k \in DOMAIN self_data.devices :
            self_data.devices[k] \in RecordsFetched /\ self_data.devices[k].imei.v = k
        /\ self_data.tasks = (IF asked.tasks[1].body.has_data THEN asked.tasks[1].body.data ELSE <<>>)
        /\ self_data.company_stats = asked.stats[1].body
        /\ ExampleRound =>
            /\ total_devices(self_data) = 3
            /\ Len(self_data.tasks) = 2
            /\ pending_tasks(self_data) = 1
            /\ failed_tasks(self_data) = 1
            /\ group_count(self_data) = 3

\* C20 witness: the example round succeeded and its snapshot is stored.
C20_Witness ==
    /\ pc = "idle"
    /\ outcome = "ok"
    /\ ExampleRound
    /\ self_data = data

\* The records of map m whose field f is v.
Having(m, f, v) == {k \in DOMAIN m : m[k][f] = v}

\* The derived metrics of snapshot d are those of its collections.
MetricsOf(d) ==
    /\ total_devices(d) = Cardinality(DOMAIN d.devices)
    /\ online_devices(d) = Cardinality(Having(d.devices, "activity_status", "Online"))
    /\ offline_devices(d) = Cardinality(DOMAIN d.devices \ Having(d.devices, "activity_status", "Online"))
    /\ online_devices(d) + offline_devices(d) = total_devices(d)
    /\ 0 <= online_devices(d) /\ online_devices(d) <= total_devices(d)
    /\ pending_tasks(d) = Cardinality(Having(d.tasks, "status", "pending"))
    /\ failed_tasks(d) = Cardinality(Having(d.tasks, "status", "failed"))
    /\ pending_tasks(d) + failed_tasks(d) <= Len(d.tasks)

\* C21: for the stored snapshot and for the one a round is building, the
\* metrics are computed from the current collections: total_devices is the
\* size of the device map, online_devices the count of "Online" devices,
\* offline_devices the rest (online + offline = total, 0 <= online <= total),
\* pending_tasks and failed_tasks the counts of "pending" and "failed" tasks,
\* together never more than the tasks.
C21_MetricsFollowCollections == MetricsOf(self_data) /\ MetricsOf(data)

\* C21 witness: the stored snapshot holds a device that is neither "Online"
\* nor "Offline" next to an online one, and tasks of both statuses.
C21_Witness ==
    /\ \E k \in DOMAIN self_data.devices : self_data.devices[k].activity_status = "Inactive"
    /\ online_devices(self_data) = 1
    /\ offline_devices(self_data) = 1
    /\ pending_tasks(self_data) = 1
    /\ failed_tasks(self_data) = 1

\* C22: a mutation service called with an id that is not positive, or
\* bulk_cancel_tasks called with no id at all, is refused and makes no remote
\* call.
C22_InvalidInputIsRejected ==
    (/\ cmd.kind \in MutationServices
     /\ \/ \E i \in 1..Len(cmd.ids) : cmd.ids[i] <= 0
        \/ cmd.kind = "bulk_cancel_tasks" /\ cmd.ids = <<>>) =>
        /\ cmd.result = "Invalid"
        /\ cmd.calls = 0

\* No setup and no unload of an entry is under way.
Settled == setup \in {"none", "failed", "loaded"} /\ other.setup \in {"none", "failed", "loaded"}

\* C28: whenever no setup and no unload is under way, the services are
\* registered if and only if hass.data[DOMAIN] holds at least one entry.
C28_ServicesFollowRegistry == Settled => (services <=> hass_data # <<>>)

\* C29: a create service called for device D calls the client of the first
\* entry of the registry whose snapshot holds D, or that of the first entry
\* when none holds D; with an empty registry it raises and calls nothing.
C29_CreateGoesToTheDevicesClient ==
    [][(cmd' # cmd /\ cmd.pc = "idle" /\ cmd'.kind \in CreateServices /\ cmd'.result # "Invalid") =>
        LET holders == {i \in 1..Len(hass_data) : cmd'.imei \in DevicesOfEntry(hass_data[i])}
        IN IF hass_data = <<>>
           THEN cmd'.calls = 0 /\ cmd'.result = "HomeAssistantError"
           ELSE /\ cmd'.calls = 1
                /\ cmd'.client = IF holders = {} THEN hass_data[1]
                                 ELSE hass_data[CHOOSE i \in holders : \A j \in holders : i <= j]]_vars

\* C29 witness: both entries hold device A, the second entry stands first in
\* the registry and the call went to its client.
C29_Witness ==
    /\ cmd.kind = "create_firmware_task"
    /\ cmd.imei = "A"
    /\ cmd.calls = 1
    /\ hass_data = <<OtherId, EntryId>>
    /\ "A" \in DOMAIN self_data.devices
    /\ "A" \in other.devices
    /\ cmd.client = OtherId

\* C23: a round that failed was ended by one of the two classified errors of
\* the client, and so ended in ConfigEntryAuthFailed or in UpdateFailed.
C23_EveryFailureIsClassified ==
    RoundFailed =>
        /\ IsApiError(cause)
        /\ outcome \in {"ConfigEntryAuthFailed", "UpdateFailed"}

\* C25: once a round of the coordinator has succeeded, the stored snapshot
\* changes only when a round succeeds, and then to the snapshot that round
\* built; failed rounds, commands and refresh requests leave it as it is.
C25_SnapshotStaysUntilNextSuccess ==
    [][origin.stored.company_stats # "init" =>
        \/ self_data' = self_data
        \/ pc = "stats" /\ pc' = "idle" /\ outcome' = "ok" /\ self_data' = data']_vars

\* C25 witness: after a successful round a cancel press succeeded and asked
\* for a refresh, and the round that followed failed; the snapshot of the
\* successful round is still stored.
C25_Witness ==
    /\ RoundFailed
    /\ origin.stored.company_stats = "old"
    /\ cmd.kind = "cancel_button"
    /\ cmd.result = "returned"
    /\ cmd.calls = 1
    /\ self_data = startData
    /\ self_data.devices # EmptyData.devices

\* C26: no step of a mutation command, from its call to its return, changes
\* the stored snapshot, whether the remote call succeeds or fails.
C26_CommandsLeaveSnapshot == [][cmd' # cmd => self_data' = self_data]_vars

\* C26 witness: the cancel button of a device sent the ids of its queue, the
\* call succeeded, and the stored snapshot still shows that queue.
C26_Witness ==
    /\ cmd.kind = "cancel_button"
    /\ cmd.pc = "idle"
    /\ cmd.calls = 1
    /\ cmd.result = "returned"
    /\ cmd.imei \in DOMAIN self_data.devices
    /\ self_data.devices[cmd.imei].task_queue = cmd.seen.task_queue
    /\ self_data.devices[cmd.imei].task_queue.items # <<>>

\* C27: after a cancel command has succeeded and asked for a refresh, a round
\* that started after it ends with its snapshot installed.
C27_RefreshAfterCommandCompletes ==
    (cmd.kind = "cancel_button" /\ cmd.result = "returned" /\ cmd.calls = 1 /\ refreshPending)
        ~> (~refreshPending /\ pc = "idle" /\ outcome = "ok")

\* The records of the pages answered in this round, in page order.
RECURSIVE RecordsInOrder(_)
RecordsInOrder(log) ==
    IF log = <<>> THEN <<>> ELSE log[1].data \o RecordsInOrder(Tail(log))

\* The distinct identifiers among the records fetched in this round, as text.
FetchedIds ==
    LET all == RecordsInOrder(fetched)
    IN {all[i].imei.v : i \in {j \in 1..Len(all) : all[j].imei # NoImei}}

\* In map m every identifier fetched in this round stands once, for the record
\* that came last with it, and m holds nothing else.
LastRecordWins(m) ==
    LET all == RecordsInOrder(fetched)
    IN /\ DOMAIN m = FetchedIds
       /\ \A i \in 1..Len(all) :
            (all[i].imei # NoImei
             /\ \A j \in (i + 1)..Len(all) : all[j].imei = NoImei \/ all[j].imei.v # all[i].imei.v)
            => m[all[i].imei.v] = all[i]

\* C30: the device map of a round and of the snapshot it installs has one
\* entry per distinct identifier fetched, the identifiers compared as str()
\* gives them; of records with the same identifier the last in page order is
\* kept, and total_devices is the number of distinct identifiers.
C30_LastDuplicateIsKept ==
    /\ pc \in {"tasks", "stats"} => LastRecordWins(data.devices)
    /\ (pc = "idle" /\ outcome = "ok") =>
        /\ LastRecordWins(self_data.devices)
        /\ total_devices(self_data) = Cardinality(FetchedIds)

\* C30 witness: "A" came as a string on page 1 and as a number on page 2; the
\* round succeeded, two devices are counted and "A" stands for the later
\* record.
C30_Witness ==
    /\ pc = "idle"
    /\ outcome = "ok"
    /\ Len(fetched) = 2
    /\ fetched[1].data = <<DevA, DevB>>
    /\ fetched[2].data = <<DevA2>>
    /\ total_devices(self_data) = 2
    /\ self_data.devices["A"] = DevA2

====
